---- MODULE Spec2Model ----
(***************************************************************************)
(* A model of BrowserUseDP:                                                *)
(*   - browser_automation.py : FunctionCallTracker, the decorator that     *)
(*     guards the driver's operations against repeated identical calls;    *)
(*   - browser_control_agent.py : the pocketflow nodes of the agent loop   *)
(*     (get_env -> plan -> execute -> observe -> finish) and their wiring. *)
(*                                                                         *)
(* Strings of the source that are not ASCII are written in pinyin:         *)
(*   "shi" (the character for yes), "fou" (no), "wancheng" (finished).     *)
(***************************************************************************)
EXTENDS Integers, Sequences, FiniteSets, TLC

(***************************************************************************)
(* Bounds of the model.                                                    *)
(***************************************************************************)
\* Guarded calls made in one behaviour of SpecGuard.
MaxCalls == 5
\* Perceive/plan/act/observe cycles started in one behaviour of Spec.
MaxCycles == 2
\* Errors in a row that Spec and SpecFallback follow; SpecErrorLoop folds the
\* counter there.
MaxRetryCount == 4
\* Cycles started in one behaviour of SpecHistory.
HistoryCycles == 7

(***************************************************************************)
(* Constants of the program.                                               *)
(***************************************************************************)
\* FunctionCallTracker.__init__ defaults (browser_automation.py:27).
max_history == 15
threshold_ms == 30000
max_repeats == 3
\* AsyncPlanOperation.exec_async: max_retries (browser_control_agent.py:329).
max_retries == 3
\* AsyncExecuteOperation.post_async: retries of a transient error
\* (browser_control_agent.py:595).
MaxTransientRetries == 3
\* AsyncObserveResult.post_async: the iteration cap
\* (browser_control_agent.py:706).
MaxIterations == 30
\* safe_data: the history entries kept for the prompt
\* (browser_control_agent.py:144).
HistorySuffix == 5
\* AsyncFinishNode.exec_async: the history entries kept for the summary
\* (browser_control_agent.py:741).
SummarySuffix == 5

VARIABLES
    \* ---- FunctionCallTracker ------------------------------------------
    call_history,   \* per guarded operation: the tracker's deque of FunctionCall
    now,            \* time.time() at the latest guarded call, in seconds
    calls,          \* number of guarded calls made so far
    last,           \* what the last guarded call did, as its caller saw it
    streak,         \* per guarded operation: the run of identical calls in progress
    \* ---- the flow and its shared dict ---------------------------------
    node,                   \* the node the flow runs next
    edge,                   \* the action string the last node's post_async returned
    browser_env,            \* shared["browser_env"]
    planned_operation,      \* shared["planned_operation"]
    operation_result,       \* shared["operation_result"]
    operation_history,      \* shared["operation_history"]
    retry_count,            \* shared["retry_count"]
    last_failed_operation,  \* shared["last_failed_operation"]
    iteration,              \* shared["iteration"]
    final_message,          \* shared["final_message"]
    attempt,                \* the planned operation's executions so far
    step                    \* what the node that ran last did in its exec

guardVars == <<call_history, now, calls, last, streak>>

sharedVars == <<browser_env, planned_operation, operation_result,
                operation_history, retry_count, last_failed_operation,
                iteration, final_message>>

flowVars == <<node, edge, attempt, step>>

vars == <<call_history, now, calls, last, streak, node, edge, browser_env,
          planned_operation, operation_result, operation_history, retry_count,
          last_failed_operation, iteration, final_message, attempt, step>>

(***************************************************************************)
(* FunctionCallTracker (browser_automation.py:25-106).                     *)
(* Every @FunctionCallTracker() decoration builds its own tracker, so each *)
(* guarded method has its own deque.                                       *)
(***************************************************************************)
\* Methods of BrowserAutomation that carry the decorator.
DecoratedMethods == {"go_to_url", "open_tab", "close_tab", "go_back",
                     "click_element", "input_text", "click_to_upload"}

\* One tracker that guards every decorated method.
TrackerOfAnyMethod(f) == "go_to_url"

\* The tracker that guards method f: each @FunctionCallTracker() in the
\* class body builds one, once, when the class is defined; the instances of
\* the class have no tracker of their own.
TrackerOf(f) == f

\* The decorated methods the callers of SpecGuard call.
GuardedOps == {"go_to_url", "click_element"}

\* Argument tuples the callers pass.
ArgVals == {"a", "b"}

\* Seconds between one guarded call and the next (time.time() is read only
\* inside the wrapper).
Elapsed == {5, 30}

\* Seconds between one guarded call of the agent and the next: a step of
\* the loop takes a few seconds.
AgentElapsed == {5}

\* What the wrapped function does when it is run.
InnerOutcomes == {"return", "raise"}

\* The dataclass FunctionCall; args stands for (args, kwargs).
FunctionCall(f, a, t) == [func_name |-> f, args |-> a, timestamp |-> t]

\* The comparison of count_recent_duplicates: name, args and kwargs equal.
SameCall(prev, cur) == prev.func_name = cur.func_name /\ prev.args = cur.args

\* The time test of count_recent_duplicates, seconds converted to ms.
TooOld(prev, cur) == (cur.timestamp - prev.timestamp) * 1000 > threshold_ms

\* The loop over reversed(self.call_history), from entry i down to 1.
RECURSIVE CountFrom(_, _, _)
CountFrom(hist, i, cur) ==
    IF i = 0 THEN 0
    ELSE IF TooOld(hist[i], cur) THEN 0
    ELSE IF SameCall(hist[i], cur) THEN 1 + CountFrom(hist, i - 1, cur)
    ELSE 0

\* A scan that skips the entries that differ and counts every identical
\* entry of the window.
CountAllDuplicates(hist, cur) ==
    Cardinality({i \in 1..Len(hist) :
                    SameCall(hist[i], cur) /\ ~TooOld(hist[i], cur)})

count_recent_duplicates(hist, cur) ==
    IF hist = <<>> THEN 0 ELSE CountFrom(hist, Len(hist), cur)

\* deque(maxlen=max_history).append: the oldest entry is dropped when full.
DequeAppend(hist, call) ==
    IF Len(hist) >= max_history THEN Append(Tail(hist), call)
    ELSE Append(hist, call)

\* A tracker that raises one call early.
RejectsOneEarly(repeat_count) == repeat_count >= max_repeats - 1

\* if repeat_count >= self.max_repeats: raise RepeatedCallError
Rejects(repeat_count) == repeat_count >= max_repeats

\* A tracker that warns one call late.
WarnsOneLate(repeat_count) == repeat_count = max_repeats

\* if repeat_count == self.max_repeats - 1: run func, return warning_msg
Warns(repeat_count) == repeat_count = max_repeats - 1

\* A tracker that records the call before it raises.
HistoryAfterRecordingRejected(hist, call, repeat_count) == DequeAppend(hist, call)

\* The deque after the call: both passing branches append, the raising one
\* leaves before any append.
HistoryAfter(hist, call, repeat_count) ==
    IF Rejects(repeat_count) THEN hist ELSE DequeAppend(hist, call)

\* A tracker that runs the function before it raises.
ExecutedByEveryCall(repeat_count) == 1

\* How many times the wrapped function is run by the call.
ExecutedBy(repeat_count) == IF Rejects(repeat_count) THEN 0 ELSE 1

\* A tracker whose warning branch returns the function's result.
OutcomeOfReturningResult(repeat_count, inner) ==
    IF repeat_count >= max_repeats THEN "RepeatedCallError"
    ELSE IF inner = "raise" THEN "exception"
    ELSE "result"

\* What the caller of the wrapper gets: RepeatedCallError, the wrapped
\* function's own exception, the warning string or the function's result.
OutcomeOf(repeat_count, inner) ==
    IF Rejects(repeat_count) THEN "RepeatedCallError"
    ELSE IF inner = "raise" THEN "exception"
    ELSE IF Warns(repeat_count) THEN "warning"
    ELSE "result"

\* wrapper(*args, **kwargs) as a whole.
Wrapper(hist, call, inner) ==
    LET repeat_count == count_recent_duplicates(hist, call)
    IN  [repeat_count |-> repeat_count,
         history      |-> HistoryAfter(hist, call, repeat_count),
         executed     |-> ExecutedBy(repeat_count),
         outcome      |-> OutcomeOf(repeat_count, inner)]

(***************************************************************************)
(* The callers' view of a run of identical calls, kept beside the tracker  *)
(* and never read by it: a run starts at a call that is the first of its   *)
(* operation, differs from the previous call of that operation, or comes   *)
(* more than threshold_ms after it.  admitted is the time of the run's      *)
(* latest call that ran the function.                                      *)
(***************************************************************************)
NoStreak == [args |-> "none", len |-> 0, start |-> 0, prev |-> 0, seen |-> 0,
             returned |-> TRUE, admitted |-> 0]

StreakAfter(s, a, t, inner, executed) ==
    IF s.len > 0 /\ s.args = a /\ (t - s.prev) * 1000 <= threshold_ms
    THEN [s EXCEPT !.len = s.len + 1, !.prev = t, !.seen = s.seen + 1,
                   !.returned = s.returned /\ inner = "return",
                   !.admitted = IF executed = 1 THEN t ELSE s.admitted]
    ELSE [args |-> a, len |-> 1, start |-> t, prev |-> t, seen |-> s.seen + 1,
          returned |-> inner = "return",
          admitted |-> IF executed = 1 THEN t ELSE 0]

NoCall == [func_name |-> "none", args |-> "none", timestamp |-> 0,
           repeat_count |-> 0, executed |-> 0, outcome |-> "none",
           inner |-> "none"]

TrackerInit ==
    /\ call_history = [f \in DecoratedMethods |-> <<>>]
    /\ now = 0
    /\ calls = 0
    /\ last = NoCall
    /\ streak = [f \in DecoratedMethods |-> NoStreak]

\* One call of a guarded method, dt seconds after the previous call.
GuardedCall(f, a, dt, inner) ==
    /\ calls < MaxCalls
    /\ LET t    == now + dt
           call == FunctionCall(f, a, t)
           w    == Wrapper(call_history[TrackerOf(f)], call, inner)
       IN  /\ now' = t
           /\ call_history' = [call_history EXCEPT ![TrackerOf(f)] = w.history]
           /\ last' = [func_name |-> f, args |-> a, timestamp |-> t,
                       repeat_count |-> w.repeat_count,
                       executed |-> w.executed, outcome |-> w.outcome,
                       inner |-> inner]
           /\ streak' = [streak EXCEPT
                             ![f] = StreakAfter(streak[f], a, t, inner, w.executed)]
    /\ calls' = calls + 1
    /\ UNCHANGED <<sharedVars, flowVars>>

(***************************************************************************)
(* Plans: the dict the planner hands to the executor.  params is the YAML  *)
(* value under "params": a mapping (its keys, and the value of its first   *)
(* argument, the one the driver is called with), a string, null, or no     *)
(* such key.                                                               *)
(***************************************************************************)
NoParams == [kind |-> "absent", keys |-> {}, arg |-> "-"]

MapParams(keys, arg) == [kind |-> "map", keys |-> keys, arg |-> arg]

StrParams(str) == [kind |-> "str", keys |-> {}, arg |-> str]

NullParams == [kind |-> "null", keys |-> {}, arg |-> "-"]

\* No plan: the key is missing from shared, or holds None.
NoPlan == [action |-> "none", params |-> NoParams]

\* The fallback of exec_async: {"action": "scroll_down", "params": {"pixel": 300}}.
DefaultPlan == [action |-> "scroll_down", params |-> MapParams({"pixel"}, "300")]

\* Plans the oracle writes in the behaviours of Spec.
OraclePlans ==
    { [action |-> "go_to_url",     params |-> MapParams({"url"}, "a")],
      [action |-> "click_element", params |-> StrParams("a")],
      [action |-> "input_text",    params |-> MapParams({"xpath"}, "a")],
      [action |-> "hover",         params |-> MapParams({}, "-")] }

(***************************************************************************)
(* AsyncPlanOperation.exec_async (browser_control_agent.py:328-414).       *)
(***************************************************************************)
\* What call_llm gives on one attempt: it raises, its text is no mapping
\* with an "action" key, or it is a plan.
RaisingReply == [kind |-> "raise", plan |-> NoPlan]

GarbageReply == [kind |-> "garbage", plan |-> NoPlan]

PlanReply(p) == [kind |-> "plan", plan |-> p]

UnparsableReplies == {RaisingReply, GarbageReply}

OracleReplies == UnparsableReplies \cup {PlanReply(p) : p \in OraclePlans}

\* What latest_tab.eles() finds for the plan's xpath and for its relaxation
\* while the planner runs, or that the page raises.
Locator(raises, orig, relaxed) ==
    [raises |-> raises, orig |-> orig, relaxed |-> relaxed]

Locators == { Locator(TRUE, 0, 0), Locator(FALSE, 1, 0),
              Locator(FALSE, 0, 1), Locator(FALSE, 0, 2) }

\* ele_xpath.replace('=', 'contains(., ').replace(']', ')]')
RelaxedXpath(x) == IF x = "a" THEN "a*" ELSE x

\* if "xpath" in parsed_plan.get("params", {})
HasXpath(p) == p.params.kind = "map" /\ "xpath" \in p.params.keys

\* A planner that takes every reply as a plan.
AttemptFailsNever(reply, loc) == FALSE

\* The attempt ends in the except clause or in the format check.
AttemptFails(reply, loc) ==
    \/ reply.kind # "plan"
    \/ reply.plan.params.kind = "null"
    \/ HasXpath(reply.plan) /\ loc.raises

\* A planner that takes the relaxation whenever it finds something.
ValidatedPlanRelaxingSeveral(p, loc) ==
    IF HasXpath(p) /\ loc.orig = 0 /\ loc.relaxed >= 1
    THEN [p EXCEPT !.params.arg = RelaxedXpath(@)]
    ELSE p

\* The plan the attempt returns: the xpath is replaced by its relaxation when
\* it finds nothing and the relaxation finds exactly one element.
ValidatedPlan(p, loc) ==
    IF HasXpath(p) /\ loc.orig = 0 /\ loc.relaxed = 1
    THEN [p EXCEPT !.params.arg = RelaxedXpath(@)]
    ELSE p

\* for attempt in range(max_retries), from attempt k on.
RECURSIVE PlanFrom(_, _, _)
PlanFrom(k, replies, loc) ==
    IF k > max_retries THEN DefaultPlan
    ELSE IF AttemptFails(replies[k], loc) THEN PlanFrom(k + 1, replies, loc)
    ELSE ValidatedPlan(replies[k].plan, loc)

PlanExec(replies, loc) == PlanFrom(1, replies, loc)

\* parsed_plan of the attempt that returns, as the oracle wrote it; NoPlan
\* when every attempt fails.
RECURSIVE ParsedFrom(_, _, _)
ParsedFrom(k, replies, loc) ==
    IF k > max_retries THEN NoPlan
    ELSE IF AttemptFails(replies[k], loc) THEN ParsedFrom(k + 1, replies, loc)
    ELSE replies[k].plan

ParsedPlan(replies, loc) == ParsedFrom(1, replies, loc)

\* The page was not asked.
NoLookup == Locator(FALSE, -1, -1)

\* What the page answered in the attempt that returns.
Lookup(replies, loc) ==
    IF HasXpath(ParsedPlan(replies, loc)) THEN loc ELSE NoLookup

\* The attempts that end in the except clause or in the format check before
\* exec_async returns, from attempt k on.
RECURSIVE FailedFrom(_, _, _)
FailedFrom(k, replies, loc) ==
    IF k > max_retries THEN 0
    ELSE IF AttemptFails(replies[k], loc) THEN 1 + FailedFrom(k + 1, replies, loc)
    ELSE 0

FailedAttempts(replies, loc) == FailedFrom(1, replies, loc)

\* The calls of call_llm exec_async makes: one at the head of every attempt
\* it starts.
OracleCalls(replies, loc) ==
    IF FailedAttempts(replies, loc) >= max_retries THEN max_retries
    ELSE FailedAttempts(replies, loc) + 1

(***************************************************************************)
(* AsyncExecuteOperation (browser_control_agent.py:421-624).               *)
(***************************************************************************)
\* The keys of _operation_map.
Actions == {"click_element", "click_to_upload", "input_text", "send_keys",
            "scroll_down", "scroll_up", "go_to_url", "go_back", "open_tab",
            "close_tab", "switch_tab"}

\* A value under "action" that is a YAML sequence or mapping: Python cannot
\* hash it.
UnhashableAction == "[unhashable]"

\* action in self._operation_map, for a value that can be hashed.
InDispatchTableOrNot(action) == TRUE

InDispatchTable(action) == action \in Actions

\* op_config["method"]: every entry names the driver method after its key.
MethodOfScrollDown(action) == "scroll_down"

MethodOf(action) == action

\* _operation_map[action]["required_params"]
RequiredParams(action) ==
    CASE action = "click_element"   -> {"xpath"}
      [] action = "click_to_upload" -> {"xpath", "file_paths"}
      [] action = "input_text"      -> {"xpath", "text"}
      [] action = "send_keys"       -> {"xpath", "keys"}
      [] action = "go_to_url"       -> {"url"}
      [] action = "open_tab"        -> {"url"}
      [] OTHER                      -> {}

\* The actions whose args_map never reads params.
IgnoresParams == {"go_back", "close_tab"}

\* The actions a string under "params" is taken as the xpath of (line 513).
XpathActions == {"click_element", "click_to_upload", "input_text", "send_keys"}

\* The driver methods that catch every exception and return a string.
NeverRaises == {"click_element", "input_text", "send_keys"}

\* The driver methods with no return statement.
ReturnsNone == {"scroll_down", "scroll_up", "go_back", "send_keys"}

\* What the driver does when a method is run: it returns, or raises this.
DriverOutcomes == {"return", "ConnectionError", "TimeoutError", "ValueError"}

Success(v) == [error |-> FALSE, error_type |-> "-", value |-> v, fields |-> {}]

Failure(t, fields) ==
    [error |-> TRUE, error_type |-> t, value |-> "-", fields |-> fields]

\* No result yet: shared has no "operation_result".
NoResult == Success("absent")

ShortFailure == {"error", "error_type", "message"}

FullFailure == {"error", "error_type", "action", "params", "message"}

\* params = op.get("params", {}) and the handling of a string.
EffectiveParams(op) ==
    IF op.params.kind = "str"
    THEN IF op.action \in XpathActions
         THEN MapParams({"xpath"}, op.params.arg)
         ELSE MapParams({}, "-")
    ELSE IF op.params.kind = "absent" THEN MapParams({}, "-")
    ELSE op.params

\* A validation that accepts everything.
ValidationFailsNever(action, params) == FALSE

\* _validate_params_by_config raises: a required key is missing, or params
\* is None and the membership test raises TypeError.
ValidationFails(action, params) ==
    /\ RequiredParams(action) # {}
    /\ \/ params.kind = "null"
       \/ ~(RequiredParams(action) \subseteq params.keys)

InnerOf(method, d) ==
    IF method \in NeverRaises \/ d = "return" THEN "return" ELSE "raise"

ReturnValue(method) == IF method \in ReturnsNone THEN "None" ELSE "value"

\* asyncio.to_thread(browser_method, *args): through the tracker when the
\* method is decorated.
Invoke(method, arg, d, hist, t) ==
    IF method \in DecoratedMethods
    THEN LET w == Wrapper(hist[TrackerOf(method)], FunctionCall(method, arg, t),
                          InnerOf(method, d))
         IN  [raised   |-> CASE w.outcome = "RepeatedCallError" -> "RepeatedCallError"
                             [] w.outcome = "exception" -> d
                             [] OTHER -> "-",
              value    |-> IF w.outcome = "warning" THEN "warning"
                           ELSE ReturnValue(method),
              history  |-> [hist EXCEPT ![TrackerOf(method)] = w.history],
              guarded  |-> TRUE,
              executed |-> w.executed,
              dispatched |-> 1]
    ELSE [raised   |-> IF InnerOf(method, d) = "raise" THEN d ELSE "-",
          value    |-> ReturnValue(method),
          history  |-> hist,
          guarded  |-> FALSE,
          executed |-> 1,
          dispatched |-> 1]

\* exec_async: the result, the trackers' deques after it, whether a guarded
\* method was called, how often the underlying driver function ran (invoked),
\* which driver method exec_async called and how often (method, dispatched),
\* and whether an exception left exec_async (escaped): the membership test
\* of line 516 stands outside every try and hashes the action.
NoDispatch(res, hist) ==
    [result  |-> res, history |-> hist, guarded |-> FALSE, invoked |-> 0,
     method  |-> "none", dispatched |-> 0, escaped |-> FALSE]

ExecAsync(op, d, hist, t) ==
    LET action == op.action
        params == EffectiveParams(op)
    IN  IF action = UnhashableAction
        THEN [NoDispatch(NoResult, hist) EXCEPT !.escaped = TRUE]
        ELSE IF ~InDispatchTable(action)
        THEN NoDispatch(Failure("unknown_action", ShortFailure), hist)
        ELSE IF ValidationFails(action, params)
        THEN NoDispatch(Failure("parameter_validation", ShortFailure), hist)
        ELSE IF params.kind = "null" /\ action \notin IgnoresParams
        THEN NoDispatch(Failure("AttributeError", FullFailure), hist)
        ELSE LET c == Invoke(MethodOf(action), params.arg, d, hist, t)
             IN  [result  |-> IF c.raised # "-"
                              THEN Failure(c.raised, FullFailure)
                              ELSE Success(c.value),
                  history |-> c.history, guarded |-> c.guarded,
                  invoked |-> c.executed,
                  method  |-> MethodOf(action), dispatched |-> c.dispatched,
                  escaped |-> FALSE]

\* A post_async that takes the guard's warning string for an error.
IsErrorOrWarning(res) == res.error \/ res.value = "warning"

\* is_error = isinstance(exec_res, dict) and exec_res.get("error") is True
IsError(res) == res.error

\* A post_async that takes the guard's refusal for a transient error.
TransientOrRepeated(error_type) ==
    error_type \in {"ConnectionError", "TimeoutError", "NetworkError",
                    "RepeatedCallError"}

\* error_type in ["ConnectionError", "TimeoutError", "NetworkError"]
Transient(error_type) ==
    error_type \in {"ConnectionError", "TimeoutError", "NetworkError"}

\* A post_async that retries a transient error whatever the count.
RetryAllowedAlways(count) == TRUE

\* A post_async that compares with < instead of <=.
RetryAllowedStrict(count) == count < MaxTransientRetries

\* ... and shared["retry_count"] <= 3
RetryAllowed(count) == count <= MaxTransientRetries

\* A post_async that retries whatever the error type.
ErrorEdgeAnyType(res, count) == IF count <= MaxTransientRetries THEN "retry" ELSE "error"

\* The action string post_async returns for an error.
ErrorEdge(res, count) ==
    IF Transient(res.error_type) /\ RetryAllowed(count) THEN "retry" ELSE "error"

\* A post_async that does not count the error.
CountAfterErrorKept(count, folded) == count

\* A post_async that forgets the failed operation.
FailedOperationForgotten(op) == NoPlan

\* shared["last_failed_operation"] = prep_res
FailedOperation(op) == op

\* A post_async that keeps the failed operation after a success.
ClearedOperationKept(old) == old

\* shared["last_failed_operation"] = None
ClearedOperation(old) == NoPlan

\* shared["retry_count"] = shared.get("retry_count", 0) + 1.  With folded,
\* counts from MaxRetryCount on are kept as MaxRetryCount, which the code's
\* one comparison (<= 3) cannot tell apart.
CountAfterError(count, folded) ==
    IF folded /\ count >= MaxRetryCount THEN count ELSE count + 1

\* post_async rewrites a string under "params" of prep_res, which is the
\* dict shared["planned_operation"] holds, before recording it (line 611-616).
RecordedOperation(op) ==
    IF op.params.kind = "str" /\ op.action \in {"click_element", "input_text", "send_keys"}
    THEN [op EXCEPT !.params = MapParams({"xpath"}, op.params.arg)]
    ELSE op

\* A post_async that records the operation without its result.
HistoryRecordWithoutResult(op, res) == [operation |-> op, result |-> Success("absent")]

HistoryRecord(op, res) == [operation |-> op, result |-> res]

\* A post_async that appends the record twice.
AppendRecordTwice(h, rec) == Append(Append(h, rec), rec)

\* A post_async that puts the record in front of the history.
AppendRecordInFront(h, rec) == <<rec>> \o h

\* shared["operation_history"].append(operation_record)
AppendRecord(h, rec) == Append(h, rec)

(***************************************************************************)
(* The operation history as the prompts show it.                           *)
(***************************************************************************)
\* str(record["result"])
ResultStr(res) == IF res.error THEN res.error_type ELSE res.value

\* safe_record: the operation as it is, the result as a string.
SafeRecord(r) == [operation |-> r.operation, result |-> ResultStr(r.result)]

SafeRecords(h) == [i \in 1..Len(h) |-> SafeRecord(h[i])]

\* seq[-n:]
LastN(seq, n) == IF Len(seq) > n THEN SubSeq(seq, Len(seq) - n + 1, Len(seq)) ELSE seq

\* safe_data(data)["operation_history"], which the planner's prompt dumps.
safe_data(h) ==
    IF Len(SafeRecords(h)) > HistorySuffix
    THEN LastN(SafeRecords(h), HistorySuffix)
    ELSE SafeRecords(h)

\* An observer that cuts the history as safe_data does.
ObserverHistoryCut(h) == safe_data(h)

\* history_yaml of AsyncObserveResult.exec_async: all of safe_history.
ObserverHistory(h) == SafeRecords(h)

\* history_yaml of AsyncFinishNode.exec_async: safe_history[-5:].
SummaryHistory(h) == LastN(SafeRecords(h), SummarySuffix)

(***************************************************************************)
(* AsyncObserveResult (browser_control_agent.py:627-711).                  *)
(***************************************************************************)
\* What call_llm gives the observer: it raises, it returns None, or it
\* returns a text, kept as the set of the words it contains.
RaisingAnswer == [kind |-> "raise", words |-> {}]

NoneAnswer == [kind |-> "none", words |-> {}]

Text(words) == [kind |-> "text", words |-> words]

CompletionAnswers ==
    { RaisingAnswer, NoneAnswer, Text({}), Text({"shi"}), Text({"fou"}),
      Text({"fou", "renwu", "wei", "wancheng"}) }

\* completion_result and ("shi" in ... or "wancheng" in ...); lower() leaves
\* these characters as they are.
Affirms(ans) ==
    /\ ans.kind = "text"
    /\ ans.words # {}
    /\ ("shi" \in ans.words \/ "wancheng" \in ans.words)

\* An exec_async that never asks the oracle.
ConsultsNever(h) == FALSE

\* if operation_history and len(operation_history) > 0
Consults(h) == h # <<>>

\* A prep_async that counts an iteration twice.
NextIterationByTwo(n) == n + 2

\* iteration = shared.get("iteration", 0) + 1
NextIteration(n) == n + 1

\* A post_async whose cap is one iteration late.
CapReachedLate(n) == n > MaxIterations

\* if iteration is not None and iteration >= 30
CapReached(n) == n >= MaxIterations

\* A post_async that consults the cap only when the oracle gave no text.
ObserveEdgeOracleFirst(ans, n) ==
    IF Affirms(ans) THEN "finish"
    ELSE IF ans.kind = "text" /\ ans.words # {} THEN "continue"
    ELSE IF CapReached(n) THEN "finish" ELSE "continue"

\* The action string post_async returns.
ObserveEdge(ans, n) ==
    IF Affirms(ans) \/ CapReached(n) THEN "finish" ELSE "continue"

\* shared["final_message"] after post_async.
ObserveMessage(ans, n, old) ==
    IF Affirms(ans) THEN "task_completed_says_oracle"
    ELSE IF CapReached(n) THEN "max_iterations_reached"
    ELSE old

(***************************************************************************)
(* The flow (browser_control_agent.py:796-814).                            *)
(***************************************************************************)
\* A wiring whose error edge leads to the observer.
SuccessorErrorObserves(n, e) ==
    CASE n = "get_env" /\ e = "default"  -> "plan"
      [] n = "plan"    /\ e = "default"  -> "execute"
      [] n = "execute" /\ e = "success"  -> "observe"
      [] n = "execute" /\ e = "error"    -> "observe"
      [] n = "execute" /\ e = "retry"    -> "execute"
      [] n = "observe" /\ e = "continue" -> "get_env"
      [] n = "observe" /\ e = "finish"   -> "finish"
      [] OTHER                           -> "done"

\* A wiring whose error edge leads to a new snapshot.
SuccessorErrorPerceives(n, e) ==
    CASE n = "get_env" /\ e = "default"  -> "plan"
      [] n = "plan"    /\ e = "default"  -> "execute"
      [] n = "execute" /\ e = "success"  -> "observe"
      [] n = "execute" /\ e = "error"    -> "get_env"
      [] n = "execute" /\ e = "retry"    -> "execute"
      [] n = "observe" /\ e = "continue" -> "get_env"
      [] n = "observe" /\ e = "finish"   -> "finish"
      [] OTHER                           -> "done"

\* A wiring whose retry edge leads to the planner.
SuccessorRetryReplans(n, e) ==
    CASE n = "get_env" /\ e = "default"  -> "plan"
      [] n = "plan"    /\ e = "default"  -> "execute"
      [] n = "execute" /\ e = "success"  -> "observe"
      [] n = "execute" /\ e = "error"    -> "plan"
      [] n = "execute" /\ e = "retry"    -> "plan"
      [] n = "observe" /\ e = "continue" -> "get_env"
      [] n = "observe" /\ e = "finish"   -> "finish"
      [] OTHER                           -> "done"

\* node - "edge" >> successor; a node with no successor ends the flow.
Successor(n, e) ==
    CASE n = "get_env" /\ e = "default"  -> "plan"
      [] n = "plan"    /\ e = "default"  -> "execute"
      [] n = "execute" /\ e = "success"  -> "observe"
      [] n = "execute" /\ e = "error"    -> "plan"
      [] n = "execute" /\ e = "retry"    -> "execute"
      [] n = "observe" /\ e = "continue" -> "get_env"
      [] n = "observe" /\ e = "finish"   -> "finish"
      [] OTHER                           -> "done"

Snapshots == {"s1", "s2"}

\* What the node that ran last did in its exec: the calls of call_llm of the
\* planner and how many of its attempts failed, the history in the prompt
\* (planner, observer, finish), the operation the executor was given, the
\* driver method it called and how often, how often the driver's function
\* behind the guard ran, the completion oracle's latest answer, and for the
\* planner the plan of the attempt that returned, as the oracle wrote it, and
\* what the page answered to its xpath.
NoStep == [node |-> "none", oracle_calls |-> 0, failed_attempts |-> 0,
           prompt_history |-> <<>>, operation |-> NoPlan, method |-> "none",
           dispatched |-> 0, executed |-> 0, completion_result |-> NoneAnswer,
           parsed_plan |-> NoPlan, lookup |-> NoLookup]

\* A producer that stores a partial snapshot when the driver fails.
StoredSnapshotPartial(old, snap) == IF snap = "raise" THEN "partial" ELSE snap

\* shared["browser_env"] after the node: post_async stores what exec_async
\* returned, and does not run when exec_async raised.
StoredSnapshot(old, snap) == IF snap = "raise" THEN old ELSE snap

SharedInit ==
    /\ node = "get_env"
    /\ edge = "none"
    /\ browser_env = "absent"
    /\ planned_operation = NoPlan
    /\ operation_result = NoResult
    /\ operation_history = <<>>
    /\ retry_count = 0
    /\ last_failed_operation = NoPlan
    /\ iteration = 0
    /\ final_message = "absent"
    /\ attempt = [entry_count |-> 0, tries |-> 0]
    /\ step = NoStep

\* AsyncGetBrowserEnv: the driver gives a snapshot, or raises and the
\* exception leaves the flow.
GetBrowserEnv(snap) ==
    /\ node = "get_env"
    /\ browser_env' = StoredSnapshot(browser_env, snap)
    /\ IF snap = "raise"
       THEN /\ node' = "crashed"
            /\ edge' = "raise"
       ELSE /\ edge' = "default"
            /\ node' = Successor(node, "default")
    /\ step' = [NoStep EXCEPT !.node = "get_env"]
    /\ UNCHANGED <<guardVars, planned_operation, operation_result,
                   operation_history, retry_count, last_failed_operation,
                   iteration, final_message, attempt>>

\* AsyncPlanOperation: prep, exec and post.
PlanOperation(replies, loc) ==
    /\ node = "plan"
    /\ planned_operation' = PlanExec(replies, loc)
    /\ edge' = "default"
    /\ node' = Successor(node, "default")
    /\ attempt' = [entry_count |-> retry_count, tries |-> 0]
    /\ step' = [NoStep EXCEPT !.node = "plan",
                              !.oracle_calls = OracleCalls(replies, loc),
                              !.failed_attempts = FailedAttempts(replies, loc),
                              !.parsed_plan = ParsedPlan(replies, loc),
                              !.lookup = Lookup(replies, loc),
                              !.prompt_history = safe_data(operation_history)]
    /\ UNCHANGED <<guardVars, browser_env, operation_result, operation_history,
                   retry_count, last_failed_operation, iteration, final_message>>

\* AsyncExecuteOperation: prep, exec and post.  d is what the driver does,
\* dt the seconds since the latest guarded call.
ExecuteOperation(d, dt, folded) ==
    /\ node = "execute"
    /\ LET t   == now + dt
           x   == ExecAsync(planned_operation, d, call_history, t)
           res == x.result
       IN  /\ step' = [NoStep EXCEPT !.node = "execute",
                                     !.operation = planned_operation,
                                     !.method = x.method,
                                     !.dispatched = x.dispatched,
                                     !.executed = x.invoked]
           /\ IF x.escaped
              THEN /\ edge' = "raise"
                   /\ UNCHANGED <<now, call_history, sharedVars>>
              ELSE /\ now' = IF x.guarded THEN t ELSE now
                   /\ call_history' = x.history
                   /\ operation_result' = res
                   /\ IF IsError(res)
                      THEN /\ folded \/ retry_count < MaxRetryCount
                           /\ last_failed_operation' = FailedOperation(planned_operation)
                           /\ retry_count' = CountAfterError(retry_count, folded)
                           /\ edge' = ErrorEdge(res, retry_count')
                           /\ UNCHANGED <<planned_operation, operation_history>>
                      ELSE /\ retry_count' = 0
                           /\ last_failed_operation' =
                                  ClearedOperation(last_failed_operation)
                           /\ planned_operation' = RecordedOperation(planned_operation)
                           /\ operation_history' =
                                  AppendRecord(operation_history,
                                               HistoryRecord(planned_operation', res))
                           /\ edge' = "success"
                   /\ UNCHANGED <<browser_env, iteration, final_message>>
    /\ node' = IF edge' = "raise" THEN "crashed" ELSE Successor(node, edge')
    /\ attempt' = [attempt EXCEPT !.tries = @ + 1]
    /\ UNCHANGED <<calls, last, streak>>

\* AsyncObserveResult: prep counts the iteration, exec asks the oracle when
\* the history is not empty, post decides.
ObserveResult(ans) ==
    /\ node = "observe"
    /\ iteration' = NextIteration(iteration)
    /\ step' = [NoStep EXCEPT !.node = "observe",
                              !.oracle_calls =
                                  IF Consults(operation_history) THEN 1 ELSE 0,
                              !.prompt_history =
                                  IF Consults(operation_history)
                                  THEN ObserverHistory(operation_history)
                                  ELSE <<>>,
                              !.completion_result =
                                  IF Consults(operation_history) THEN ans
                                  ELSE NoneAnswer]
    /\ IF Consults(operation_history) /\ ans.kind = "raise"
       THEN /\ node' = "crashed"
            /\ edge' = "raise"
            /\ UNCHANGED final_message
       ELSE /\ edge' = ObserveEdge(step'.completion_result, iteration')
            /\ final_message' =
                   ObserveMessage(step'.completion_result, iteration', final_message)
            /\ node' = Successor(node, edge')
    /\ UNCHANGED <<guardVars, browser_env, planned_operation, operation_result,
                   operation_history, retry_count, last_failed_operation, attempt>>

\* AsyncFinishNode: the summary replaces shared["final_message"]; post
\* returns None and the flow ends.  BrowserAgent.post_async then gets None
\* for exec_res and leaves shared as it is.
FinishNode(summary) ==
    /\ node = "finish"
    /\ step' = [NoStep EXCEPT !.node = "finish",
                              !.oracle_calls =
                                  IF operation_history = <<>> THEN 0 ELSE 1,
                              !.prompt_history = SummaryHistory(operation_history),
                              !.completion_result = step.completion_result]
    /\ final_message' =
           IF operation_history = <<>> THEN "task_completed"
           ELSE IF summary = "raise" THEN "task_completed_no_summary"
           ELSE "summary"
    /\ edge' = "none"
    /\ node' = Successor(node, "none")
    /\ UNCHANGED <<guardVars, browser_env, planned_operation, operation_result,
                   operation_history, retry_count, last_failed_operation,
                   iteration, attempt>>

(***************************************************************************)
(* Specifications.                                                         *)
(***************************************************************************)
GuardInit == TrackerInit /\ SharedInit

Init == TrackerInit /\ SharedInit

\* The oracle's replies to the attempts of one planning: k - 1 unusable
\* replies and then a plan, or unusable replies throughout.
ReplySeqs ==
    { [i \in 1..max_retries |-> IF i < k THEN u ELSE PlanReply(p)] :
          k \in 1..max_retries, u \in UnparsableReplies, p \in OraclePlans }
    \cup [1..max_retries -> UnparsableReplies]

UnparsableSeqs == [1..max_retries -> UnparsableReplies]

\* What the page can answer to the planner's look-ups: the page is asked
\* only for a plan that has an xpath.
LocatorsFor(replies) ==
    IF \E i \in 1..max_retries : HasXpath(replies[i].plan)
    THEN Locators
    ELSE {Locator(FALSE, 1, 0)}

\* The page as the n-th cycle of Spec finds it: it changes from one cycle to
\* the next.
SnapshotsAt(n) == {IF n % 2 = 0 THEN "s1" ELSE "s2"}

\* The agent with any oracle and any driver, for MaxCycles cycles and up to
\* MaxRetryCount errors in a row.
Next ==
    \/ \E snap \in SnapshotsAt(iteration) \cup {"raise"} :
           iteration < MaxCycles /\ GetBrowserEnv(snap)
    \/ \E replies \in ReplySeqs :
           \E loc \in LocatorsFor(replies) : PlanOperation(replies, loc)
    \/ \E d \in DriverOutcomes, dt \in AgentElapsed : ExecuteOperation(d, dt, FALSE)
    \/ \E ans \in CompletionAnswers : ObserveResult(ans)
    \/ \E summary \in {"return", "raise"} : FinishNode(summary)

Spec == Init /\ [][Next]_vars

\* The oracle never gives the planner a usable reply and never raises in the
\* observer; the snapshot is always taken; the driver fails at most
\* MaxRetryCount times in a row.  The flow runs to the cap of MaxIterations.
NextFallback ==
    \/ \E snap \in Snapshots : GetBrowserEnv(snap)
    \/ \E replies \in UnparsableSeqs, loc \in Locators : PlanOperation(replies, loc)
    \/ \E d \in DriverOutcomes, dt \in AgentElapsed : ExecuteOperation(d, dt, FALSE)
    \/ \E ans \in CompletionAnswers \ {RaisingAnswer} : ObserveResult(ans)
    \/ \E summary \in {"return", "raise"} : FinishNode(summary)

SpecFallback == Init /\ [][NextFallback]_vars /\ WF_vars(NextFallback)

\* As SpecFallback, with a driver that may fail every time.
NextErrorLoop ==
    \/ \E snap \in Snapshots : GetBrowserEnv(snap)
    \/ \E replies \in UnparsableSeqs, loc \in Locators : PlanOperation(replies, loc)
    \/ \E d \in DriverOutcomes, dt \in AgentElapsed : ExecuteOperation(d, dt, TRUE)
    \/ \E ans \in CompletionAnswers \ {RaisingAnswer} : ObserveResult(ans)
    \/ \E summary \in {"return", "raise"} : FinishNode(summary)

SpecErrorLoop == Init /\ [][NextErrorLoop]_vars /\ WF_vars(NextErrorLoop)

GuardNext ==
    \E f \in GuardedOps, a \in ArgVals, dt \in Elapsed, inner \in InnerOutcomes :
        GuardedCall(f, a, dt, inner)

SpecGuard == GuardInit /\ [][GuardNext]_vars

\* Two instances of BrowserAutomation whose guarded methods are called in
\* any order: the wrapper's args begin with the instance the method is
\* called on.
Instances == {"d1", "d2"}

BoundArgs(self, a) == <<self, a>>

InstancesNext ==
    \E self \in Instances, f \in GuardedOps, dt \in Elapsed :
        GuardedCall(f, BoundArgs(self, "a"), dt, "return")

SpecInstances == GuardInit /\ [][InstancesNext]_vars

\* A caller that issues one and the same guarded call again and again, each
\* time less than threshold_ms after the time before.
ReissueElapsed == {5, 20, 25}

ReissueNext ==
    \E dt \in ReissueElapsed, inner \in InnerOutcomes :
        GuardedCall("go_to_url", "a", dt, inner)

SpecReissue == GuardInit /\ [][ReissueNext]_vars

\* The executor alone, on every plan it can be given: the action is a name
\* of the dispatch table, another name, missing, or a value that cannot be
\* hashed; params is missing, null, a string, or a mapping with some of the
\* action's required keys.
ExecActionValues == Actions \cup {"hover", "none", UnhashableAction}

ParamShapes(action) ==
    {NoParams, NullParams, StrParams("a")}
        \cup {MapParams(keys, "a") : keys \in SUBSET RequiredParams(action)}

ExecutorInputs ==
    {[action |-> a, params |-> p] : a \in ExecActionValues, p \in
         UNION {ParamShapes(b) : b \in ExecActionValues}}

ExecInit ==
    /\ TrackerInit
    /\ node = "execute"
    /\ edge = "default"
    /\ browser_env = "s1"
    /\ planned_operation \in
           {op \in ExecutorInputs : op.params \in ParamShapes(op.action)}
    /\ operation_result = NoResult
    /\ operation_history = <<>>
    /\ retry_count = 0
    /\ last_failed_operation = NoPlan
    /\ iteration = 0
    /\ final_message = "absent"
    /\ attempt = [entry_count |-> 0, tries |-> 0]
    /\ step = NoStep

ExecNext ==
    \E d \in DriverOutcomes, dt \in AgentElapsed : ExecuteOperation(d, dt, FALSE)

SpecExecute == ExecInit /\ [][ExecNext]_vars

\* A long run: the oracle plans one of two scrolls at its first attempt and
\* never affirms completion, the driver returns; HistoryCycles cycles.
HistoryPlans ==
    { DefaultPlan, [action |-> "scroll_up", params |-> MapParams({"pixel"}, "300")] }

HistorySeqs == { [i \in 1..max_retries |-> PlanReply(p)] : p \in HistoryPlans }

NextHistory ==
    \/ iteration < HistoryCycles /\ GetBrowserEnv("s1")
    \/ \E replies \in HistorySeqs : PlanOperation(replies, Locator(FALSE, 1, 0))
    \/ \E dt \in AgentElapsed : ExecuteOperation("return", dt, FALSE)
    \/ ObserveResult(Text({"fou"}))

SpecHistory == Init /\ [][NextHistory]_vars

\* The planner's check of the xpath: the oracle's plan has an xpath, at its
\* first attempt or after a reply that does not parse, and the page finds 0, 1
\* or 2 elements for the xpath and for its relaxation, or raises.
LocatePlans ==
    { [action |-> "click_element", params |-> MapParams({"xpath"}, "a")],
      [action |-> "click_element", params |-> MapParams({"xpath"}, "b")],
      [action |-> "input_text",    params |-> MapParams({"xpath", "text"}, "a")] }

LocateSeqs ==
    { [i \in 1..max_retries |-> IF i < k THEN GarbageReply ELSE PlanReply(p)] :
          k \in 1..2, p \in LocatePlans }

AllLocators ==
    {Locator(TRUE, 0, 0)}
        \cup {Locator(FALSE, orig, relaxed) : orig \in 0..2, relaxed \in 0..2}

NextLocate ==
    \/ \E snap \in Snapshots : iteration < MaxCycles /\ GetBrowserEnv(snap)
    \/ \E replies \in LocateSeqs, loc \in AllLocators : PlanOperation(replies, loc)
    \/ \E dt \in AgentElapsed : ExecuteOperation("return", dt, FALSE)
    \/ ObserveResult(Text({"fou"}))

SpecLocate == Init /\ [][NextLocate]_vars

(***************************************************************************)
(* Claims about the repetition guard, checked under SpecGuard.             *)
(***************************************************************************)
\* The run of identical calls the last call belongs to.
LastStreak == streak[last.func_name]

\* The last call and every call of its run lie within threshold_ms of the
\* run's first call.
LastInWindow ==
    /\ last.outcome # "none"
    /\ (last.timestamp - LastStreak.start) * 1000 <= threshold_ms

\* The guard let the last call through as an ordinary call: the function ran
\* once and the caller got what the function did.
NormalPass ==
    /\ last.executed = 1
    /\ last.outcome = (IF last.inner = "return" THEN "result" ELSE "exception")

\* The guard's last-chance pass: the function ran once and the caller got the
\* warning in place of the function's result.
WarningPass ==
    /\ last.executed = 1
    /\ last.outcome = (IF last.inner = "return" THEN "warning" ELSE "exception")

\* The guard refused the last call.
RejectedCall == last.executed = 0 /\ last.outcome = "RepeatedCallError"

\* C1 as stated: in a run of identical calls made within the threshold, the
\* first M-2 calls pass normally, call M-1 returns the warning, and call M and
\* every later one fail.
C1_AsStated ==
    (LastInWindow /\ LastStreak.returned) =>
        /\ (LastStreak.len <= max_repeats - 2 => NormalPass)
        /\ (LastStreak.len = max_repeats - 1 => WarningPass)
        /\ (LastStreak.len >= max_repeats => RejectedCall)

\* C1 amended: in a run of identical calls made within the threshold, the
\* first M-1 calls pass normally, call M runs the function and returns the
\* warning, and call M+1 and every later one fail with RepeatedCallError.
C1_GuardSchedule ==
    LastInWindow =>
        /\ (LastStreak.len <= max_repeats - 1 => NormalPass)
        /\ (LastStreak.len = max_repeats => WarningPass)
        /\ (LastStreak.len >= max_repeats + 1 => RejectedCall)

\* A run that went past the rejection: its fifth call, still in the window.
C1_Witness ==
    /\ LastInWindow
    /\ LastStreak.len = max_repeats + 2
    /\ RejectedCall

\* C2: with max_repeats = 3 and an empty buffer, four identical calls of an
\* operation that returns, within the window: calls 1 and 2 give the
\* operation's result, call 3 runs it and gives the warning, call 4 raises.
C2_FourCalls ==
    (/\ LastInWindow
     /\ max_repeats = 3
     /\ LastStreak.seen = LastStreak.len
     /\ LastStreak.returned) =>
        /\ (LastStreak.len \in {1, 2} =>
                last.outcome = "result" /\ last.executed = 1)
        /\ (LastStreak.len = 3 =>
                last.outcome = "warning" /\ last.executed = 1)
        /\ (LastStreak.len = 4 =>
                last.outcome = "RepeatedCallError" /\ last.executed = 0)

\* The fourth call of the example, raising.
C2_Witness ==
    /\ LastInWindow
    /\ LastStreak.seen = 4
    /\ LastStreak.len = 4
    /\ LastStreak.returned
    /\ last.outcome = "RepeatedCallError"

\* C3 as stated: a call made with repeat_count = M-1 runs the operation once
\* and returns the warning string.
C3_AsStated ==
    (last.outcome # "none" /\ last.repeat_count = max_repeats - 1) =>
        last.executed = 1 /\ last.outcome = "warning"

\* C3 amended: a call made with repeat_count = M-1 runs the operation exactly
\* once; when the operation returns, the caller gets the warning string in
\* place of its result; when it raises, its exception reaches the caller.
C3_WarningPass ==
    (last.outcome # "none" /\ last.repeat_count = max_repeats - 1) =>
        /\ last.executed = 1
        /\ last.inner = "return" => last.outcome = "warning"
        /\ last.inner = "raise" => last.outcome = "exception"

\* A call with repeat_count = M-1 whose operation returned.
C3_Witness ==
    /\ last.repeat_count = max_repeats - 1
    /\ last.inner = "return"
    /\ last.outcome = "warning"

\* C4: a call made with repeat_count >= M does not run the operation and
\* fails with RepeatedCallError.
C4_Rejection ==
    (last.outcome # "none" /\ last.repeat_count >= max_repeats) =>
        last.executed = 0 /\ last.outcome = "RepeatedCallError"

\* A refused call.
C4_Witness ==
    /\ last.repeat_count >= max_repeats
    /\ last.executed = 0
    /\ last.func_name \in GuardedOps

\* The call the last step made, as the tracker would record it.
LastCall == FunctionCall(last.func_name, last.args, last.timestamp)

\* C5 as stated: after a call refused at repeat_count >= M, that call is the
\* most recent entry of the buffer.
C5_AsStated ==
    last.outcome = "RepeatedCallError" =>
        LET h == call_history[last.func_name]
        IN  Len(h) > 0 /\ h[Len(h)] = LastCall

\* C5 amended: a call refused at repeat_count >= M is not appended: the step
\* that refuses a call leaves the buffer as it was.
C5_RejectedNotRecorded ==
    [][(calls' = calls + 1 /\ last'.outcome = "RepeatedCallError")
           => call_history' = call_history]_vars

\* A refused call made later than the buffer's most recent entry.
C5_Witness ==
    /\ last.outcome = "RepeatedCallError"
    /\ LET h == call_history[last.func_name]
       IN  Len(h) = max_repeats /\ h[Len(h)].timestamp < last.timestamp

C7_AlwaysTerminates == <>(node = "done")

\* The step is an EXECUTE outcome that is a structured error.
ErrorOutcome == node = "execute" /\ IsError(operation_result')

\* The planned operation is executed again, and the planner is not run.
RetryPath ==
    /\ edge' = "retry"
    /\ node' = "execute"
    /\ planned_operation' = planned_operation

\* C8 as stated: for every planned operation, its first three failures, when
\* transient, take the retry path, and its fourth failure goes to PLAN.
C8_AsStated ==
    [][/\ (ErrorOutcome /\ Transient(operation_result'.error_type)
              /\ attempt.tries < MaxTransientRetries) => RetryPath
       /\ (ErrorOutcome /\ attempt.tries = MaxTransientRetries)
              => node' = "plan"]_vars

\* C8 amended: for a planned operation that was planned with retry_count = 0
\* (at the start of the run or after a success), its first three failures,
\* when transient, take the retry path, and its fourth failure goes to PLAN.
C8_RetryThenPlan ==
    [][attempt.entry_count = 0 =>
          /\ (ErrorOutcome /\ Transient(operation_result'.error_type)
                 /\ attempt.tries < MaxTransientRetries) => RetryPath
          /\ (ErrorOutcome /\ attempt.tries = MaxTransientRetries)
                 => node' = "plan"]_vars

\* The fourth failure in a row of an operation planned with retry_count = 0.
C8_Witness ==
    /\ attempt.entry_count = 0
    /\ attempt.tries = MaxTransientRetries + 1
    /\ IsError(operation_result)
    /\ node = "plan"

\* C9: an EXECUTE outcome that is an error of a type that is not transient, or
\* a transient error that takes retry_count past 3, adds 1 to retry_count, sets
\* last_failed_operation to the operation that failed, and goes to PLAN.
C9_ErrorToPlan ==
    [][(/\ ErrorOutcome
        /\ \/ ~Transient(operation_result'.error_type)
           \/ retry_count + 1 > MaxTransientRetries)
          => /\ retry_count' = retry_count + 1
             /\ last_failed_operation' = planned_operation
             /\ edge' = "error"
             /\ node' = "plan"]_vars

\* A first failure that is not transient, back in PLAN.
C9_Witness ==
    /\ node = "plan"
    /\ edge = "error"
    /\ retry_count = 1
    /\ operation_result.error_type = "parameter_validation"
    /\ last_failed_operation = planned_operation

\* C10: a successful EXECUTE outcome sets retry_count to 0, clears
\* last_failed_operation, appends one record of the executed operation and its
\* result to the history, and goes to OBSERVE.
C10_SuccessToObserve ==
    [][(node = "execute" /\ ~IsError(operation_result')) =>
          LET n == Len(operation_history)
          IN  /\ retry_count' = 0
              /\ last_failed_operation' = NoPlan
              /\ Len(operation_history') = n + 1
              /\ SubSeq(operation_history', 1, n) = operation_history
              /\ operation_history'[n + 1].operation = planned_operation'
              /\ operation_history'[n + 1].operation.action = planned_operation.action
              /\ operation_history'[n + 1].result = operation_result'
              /\ edge' = "success"
              /\ node' = "observe"]_vars

\* A success that came after failures of the same operation.
C10_Witness ==
    /\ node = "observe"
    /\ edge = "success"
    /\ attempt.tries >= 2
    /\ retry_count = 0
    /\ Len(operation_history) = 2

(***************************************************************************)
(* Claims about the counters, the observer and the history.                *)
(***************************************************************************)
\* C11 (under Spec): retry_count is 0 after a successful EXECUTE outcome,
\* grows by exactly 1 on every error outcome, whether it goes to RETRY or to
\* PLAN, and no other step of the loop changes it.
C11_RetryCount ==
    [][/\ (node = "execute" /\ edge' = "success") => retry_count' = 0
       /\ (node = "execute" /\ edge' \in {"retry", "error"})
              => retry_count' = retry_count + 1
       /\ node # "execute" => retry_count' = retry_count]_vars

\* A success that follows two errors in a row and clears the count.
C11_Witness ==
    /\ step.node = "execute"
    /\ edge = "success"
    /\ attempt.entry_count >= 2
    /\ retry_count = 0

C13_CapMessageAtDone ==
    (/\ node = "done"
     /\ iteration >= MaxIterations
     /\ ~Affirms(step.completion_result)) =>
        final_message = "max_iterations_reached"

\* C14 (under SpecHistory): the history in the planner's prompt and the
\* history in the observer's prompt each hold at most 5 entries, the most recent
\* ones of the full history.
C14_PromptHistoryBounded ==
    step.node \in {"plan", "observe"} =>
        /\ Len(step.prompt_history) <= HistorySuffix
        /\ step.prompt_history = LastN(SafeRecords(operation_history), HistorySuffix)

\* C15 as stated: the history grows by one record on every EXECUTE outcome
\* that does not take the RETRY path and on no other step, so that its length
\* is the number of such outcomes.
C15_AsStated ==
    [][Len(operation_history') =
           Len(operation_history)
               + (IF node = "execute" /\ edge' # "retry" THEN 1 ELSE 0)]_vars

\* C15 amended: the history is empty at the start and grows by one record on
\* every successful EXECUTE outcome and on no other step, so that its length
\* is the number of successful outcomes; an error outcome routed to PLAN
\* appends nothing.
C15_HistoryCountsSuccesses ==
    [][Len(operation_history') =
           Len(operation_history)
               + (IF node = "execute" /\ edge' = "success" THEN 1 ELSE 0)]_vars

\* An error outcome routed to PLAN after a success: two terminal outcomes,
\* one record.
C15_Witness ==
    /\ step.node = "execute"
    /\ edge = "error"
    /\ iteration = 1
    /\ Len(operation_history) = 1

(***************************************************************************)
(* Claims about the executor, checked under SpecExecute.                   *)
(***************************************************************************)
\* The operation the last step executed.
Executed == step.node = "execute"

\* The parameters an operation provides: the keys of a mapping, or the xpath
\* a string stands for.
ProvidedParams(op) ==
    CASE op.params.kind = "map" -> op.params.keys
      [] op.params.kind = "str" /\ op.action \in XpathActions -> {"xpath"}
      [] OTHER -> {}

LacksRequired(op) == ~(RequiredParams(op.action) \subseteq ProvidedParams(op))

\* C16: for every action of the vocabulary, execute on params that lack one
\* of the action's required parameters returns a structured failure of type
\* parameter_validation and calls no driver operation.
C16_MissingParamRejected ==
    (Executed /\ step.operation.action \in Actions /\ LacksRequired(step.operation)) =>
        /\ operation_result = Failure("parameter_validation", ShortFailure)
        /\ step.dispatched = 0
        /\ call_history = [f \in DecoratedMethods |-> <<>>]

\* input_text with an xpath and no text.
C16_Witness ==
    /\ Executed
    /\ step.operation = [action |-> "input_text", params |-> MapParams({"xpath"}, "a")]
    /\ operation_result.error_type = "parameter_validation"
    /\ step.dispatched = 0

\* C17: execute on an action name outside the dispatch table returns a
\* structured failure of type unknown_action whatever the params, without
\* validating them and without calling a driver operation.
C17_UnknownAction ==
    (Executed /\ step.operation.action \notin Actions \cup {UnhashableAction}) =>
        /\ operation_result = Failure("unknown_action", ShortFailure)
        /\ step.dispatched = 0

\* An unknown name with null params, which validation would refuse.
C17_Witness ==
    /\ Executed
    /\ step.operation = [action |-> "hover", params |-> NullParams]
    /\ operation_result.error_type = "unknown_action"

\* C18: whatever the plan and whatever the driver does, execute returns a
\* value and lets no exception into the control loop.
C18_NoEscape == Executed => node # "crashed"

C20_PlanAlwaysReturns ==
    step.node = "plan" =>
        /\ node = "execute"
        /\ planned_operation.action # "none"
        /\ step.oracle_calls \in 1..max_retries
        /\ (step.failed_attempts = max_retries => planned_operation = DefaultPlan)

\* Three failed attempts and the default plan.
C20_Witness ==
    /\ step.node = "plan"
    /\ step.oracle_calls = max_retries
    /\ step.failed_attempts = max_retries
    /\ planned_operation = DefaultPlan
    /\ node = "execute"

(***************************************************************************)
(* Claims about the plans, the transitions and the run state.              *)
(***************************************************************************)
\* C21 (under Spec): every plan the planner hands to the executor has an
\* action of the vocabulary and a mapping under params; a reply of another
\* shape is rejected by the planner and does not reach the executor.
C21_WellFormedPlans ==
    step.node = "plan" =>
        /\ planned_operation.action \in Actions
        /\ planned_operation.params.kind = "map"

\* The transitions of the loop; the finish node is the step from OBSERVE to
\* DONE.
Transitions ==
    { <<"get_env", "plan">>, <<"plan", "execute">>, <<"execute", "observe">>,
      <<"execute", "plan">>, <<"execute", "execute">>, <<"observe", "get_env">>,
      <<"observe", "finish">>, <<"finish", "done">> }

\* C22 (under Spec): the loop starts in PERCEIVE and takes only the
\* transitions PERCEIVE->PLAN, PLAN->EXECUTE, EXECUTE->OBSERVE on success,
\* EXECUTE->PLAN on error, EXECUTE->EXECUTE on retry, OBSERVE->PERCEIVE on
\* continue and OBSERVE->DONE on finish; DONE is entered only from OBSERVE
\* and no step is taken after it.  A step that an exception ends takes none.
C22_Transitions ==
    /\ node = "get_env"
    /\ [][/\ node \notin {"done", "crashed"}
          /\ node' # "crashed" =>
                /\ <<node, node'>> \in Transitions
                /\ (node = "execute" =>
                       node' = CASE edge' = "success" -> "observe"
                                 [] edge' = "error"   -> "plan"
                                 [] edge' = "retry"   -> "execute")
                /\ (node = "observe" =>
                       node' = CASE edge' = "continue" -> "get_env"
                                 [] edge' = "finish"   -> "finish")]_vars

\* A run that went round the loop, failed and retried on its way, and ended.
C22_Witness ==
    /\ node = "done"
    /\ iteration = 2
    /\ attempt.tries >= 2
    /\ attempt.entry_count >= 1

\* C23 (under Spec): iteration never decreases; it grows by exactly 1 on
\* each entry to OBSERVE and no other step changes it.
C23_Iteration ==
    [][/\ iteration' >= iteration
       /\ node = "observe" => iteration' = iteration + 1
       /\ node # "observe" => iteration' = iteration]_vars

\* The second OBSERVE of a run whose cycles held errors and retries.
C23_Witness ==
    /\ step.node = "observe"
    /\ iteration = 2
    /\ attempt.tries >= 2

\* C24 (under Spec): every step leaves the history as it is or puts one
\* record at its end; no record is removed, moved or rewritten.
C24_AppendOnly ==
    [][\/ operation_history' = operation_history
       \/ /\ Len(operation_history') = Len(operation_history) + 1
          /\ SubSeq(operation_history', 1, Len(operation_history))
                 = operation_history]_vars

\* Two different records, in the order of their execution.
C24_Witness ==
    /\ Len(operation_history) = 2
    /\ operation_history[1] # operation_history[2]
    /\ operation_history[2].operation = planned_operation

\* C25 (under Spec): when the driver fails while the snapshot is taken, the
\* failure leaves the PERCEIVE step as an error: the snapshot in the run
\* state stays the previous one, and neither PERCEIVE is run again nor PLAN
\* entered.
C25_SnapshotFailure ==
    [][/\ (node = "get_env" /\ edge' = "raise") =>
              /\ browser_env' = browser_env
              /\ node' = "crashed"
       /\ node # "crashed"]_vars

\* The snapshot of the second cycle fails; the first one is still there.
C25_Witness ==
    /\ node = "crashed"
    /\ step.node = "get_env"
    /\ iteration = 1
    /\ browser_env = "s1"

\* The guard refused the call the executor made: the method was called and
\* the driver's function behind it did not run.
GuardRefused == step.node = "execute" /\ step.dispatched = 1 /\ step.executed = 0

\* C26 (under Spec): when the guard raises RepeatedCallError inside the
\* operation the executor called, the result is a structured failure with
\* that error type and the flow goes to PLAN, not to RETRY, and no exception
\* leaves the executor.
C26_RepeatedCallToPlan ==
    GuardRefused =>
        /\ operation_result = Failure("RepeatedCallError", FullFailure)
        /\ edge = "error"
        /\ node = "plan"

\* A refusal that comes while fewer than 3 errors have been counted.
C26_Witness ==
    /\ GuardRefused
    /\ retry_count <= MaxTransientRetries
    /\ node = "plan"

\* C27 (under Spec): when PLAN is entered on the error path, the result in
\* the run state is the structured failure of the operation just executed,
\* last_failed_operation and planned_operation are that operation, and
\* retry_count >= 1.
C27_FailureContext ==
    (node = "plan" /\ edge = "error") =>
        /\ step.node = "execute"
        /\ IsError(operation_result)
        /\ last_failed_operation = step.operation
        /\ planned_operation = step.operation
        /\ retry_count >= 1

\* PLAN entered after a transient error that was retried three times.
C27_Witness ==
    /\ node = "plan"
    /\ edge = "error"
    /\ Transient(operation_result.error_type)
    /\ retry_count = MaxTransientRetries + 1
    /\ last_failed_operation = planned_operation

\* C28 (under Spec): a RETRY leaves the planned operation, the snapshot, the
\* history and iteration as they are and asks the oracle nothing, and the
\* EXECUTE that follows it is given the operation of the attempt that failed.
C28_RetryFrame ==
    [][/\ (node = "execute" /\ edge' = "retry") =>
              /\ node' = "execute"
              /\ planned_operation' = planned_operation
              /\ browser_env' = browser_env
              /\ operation_history' = operation_history
              /\ iteration' = iteration
              /\ step'.oracle_calls = 0
       /\ (node = "execute" /\ edge = "retry") =>
              /\ step.node = "execute"
              /\ step'.node = "execute"
              /\ step'.operation = step.operation]_vars

\* The outcome of an EXECUTE that followed a RETRY, itself a RETRY.
C28_Witness ==
    /\ node = "execute"
    /\ edge = "retry"
    /\ attempt.tries = 2
    /\ step.operation = planned_operation
    /\ step.dispatched = 1

\* C29 (under SpecExecute): every structured failure execute returns carries
\* all of error, error_type, message, action and params.
C29_FailureFields ==
    (step.node = "execute" /\ IsError(operation_result)) =>
        operation_result.fields = FullFailure

\* C30 (under SpecLocate): for a plan with an xpath, when the xpath finds no
\* element and its relaxation finds exactly one, the plan returned carries
\* the relaxed xpath; in every other case it carries the xpath as the oracle
\* wrote it; and the check asks the oracle nothing.
C30_Relaxation ==
    (step.node = "plan" /\ HasXpath(step.parsed_plan)) =>
        /\ ~step.lookup.raises
        /\ planned_operation =
               (IF step.lookup.orig = 0 /\ step.lookup.relaxed = 1
                THEN [step.parsed_plan EXCEPT !.params.arg = RelaxedXpath(@)]
                ELSE step.parsed_plan)
        /\ step.oracle_calls = step.failed_attempts + 1

\* The relaxed xpath in the plan.
C30_Witness ==
    /\ step.node = "plan"
    /\ step.lookup = Locator(FALSE, 0, 1)
    /\ step.parsed_plan.params.arg = "a"
    /\ planned_operation.params.arg = RelaxedXpath("a")
    /\ planned_operation.params.arg # "a"

(***************************************************************************)
(* Claims about the guard's count, the observer's judgement and the retry  *)
(* bookkeeping.                                                            *)
(***************************************************************************)
\* The k most recent entries of the buffer all are the call cur again, no
\* more than threshold_ms before it.
RecentRun(hist, cur, k) ==
    \A j \in (Len(hist) - k + 1)..Len(hist) :
        /\ hist[j].func_name = cur.func_name
        /\ hist[j].args = cur.args
        /\ (cur.timestamp - hist[j].timestamp) * 1000 <= threshold_ms

\* The length of the longest such run.
LongestRecentRun(hist, cur) ==
    CHOOSE k \in 0..Len(hist) :
        /\ RecentRun(hist, cur, k)
        /\ \A m \in (k + 1)..Len(hist) : ~RecentRun(hist, cur, m)

\* C31 (under SpecInstances): the repeat_count of a call is the length of the
\* longest run of entries at the recent end of the operation's buffer that
\* have the call's name and arguments and are no more than T ms older; an
\* identical entry behind a differing or an expired one is not counted.
C31_RepeatCount ==
    [][calls' = calls + 1 =>
          last'.repeat_count =
              LongestRecentRun(call_history[last'.func_name],
                               FunctionCall(last'.func_name, last'.args,
                                            last'.timestamp))]_vars

\* An identical entry lies in the window behind a differing one, and the
\* count of the call was 0.
C31_Witness ==
    /\ last.outcome # "none"
    /\ LET h == call_history[last.func_name]
       IN
        /\ Len(h) >= 3
        /\ h[Len(h)] = LastCall
        /\ h[Len(h) - 1].args # last.args
        /\ h[Len(h) - 2].args = last.args
        /\ (last.timestamp - h[Len(h) - 2].timestamp) * 1000 <= threshold_ms
        /\ last.repeat_count = 0

\* The oracle's answer says no: it holds the no token, alone or in a
\* sentence that says the task is not finished.
Denies(ans) == ans.kind = "text" /\ "fou" \in ans.words

\* C32 (under Spec): while iteration < 30, an answer of the oracle that
\* denies completion yields CONTINUE.
C32_DenialContinues ==
    (/\ step.node = "observe"
     /\ iteration < MaxIterations
     /\ Denies(step.completion_result)) => edge = "continue"

\* C33 (under SpecErrorLoop): retry_count is carried over re-planning and
\* lowered only by a success, and every RETRY is taken at a new value of it
\* between 1 and 3; so between two successes RETRY is taken at most 3 times
\* over all planned operations, no planned operation is executed more than
\* 4 times, and once retry_count has passed 3 a transient error goes to PLAN.
C33_RetryBudget ==
    [][/\ edge' = "retry" =>
              /\ node = "execute"
              /\ retry_count' \in 1..MaxTransientRetries
              /\ retry_count' = retry_count + 1
       /\ retry_count' < retry_count => (node = "execute" /\ edge' = "success")
       /\ node # "execute" => retry_count' = retry_count
       /\ attempt'.tries <= MaxTransientRetries + 1
       /\ (ErrorOutcome /\ retry_count' > MaxTransientRetries)
              => (edge' = "error" /\ node' = "plan")]_vars

\* An operation planned after two errors gets one retry: its second
\* transient error goes to PLAN.
C33_Witness ==
    /\ node = "plan"
    /\ edge = "error"
    /\ Transient(operation_result.error_type)
    /\ attempt.entry_count = 2
    /\ attempt.tries = 2
    /\ retry_count = MaxTransientRetries + 1

\* C34 (under Spec): last_failed_operation is set exactly when
\* retry_count > 0; an EXECUTE that fails sets it to the operation it was
\* given, and no step other than EXECUTE changes it.
C34_LastFailed ==
    [][/\ (last_failed_operation' # NoPlan) <=> (retry_count' > 0)
       /\ (ErrorOutcome /\ edge' # "raise")
              => last_failed_operation' = planned_operation
       /\ node # "execute" => last_failed_operation' = last_failed_operation]_vars

\* A success that follows a failure and clears the failed operation.
C34_Witness ==
    /\ step.node = "execute"
    /\ edge = "success"
    /\ attempt.tries >= 2
    /\ retry_count = 0
    /\ last_failed_operation = NoPlan

\* C35 (under Spec): at every OBSERVE decision and at DONE, iteration is
\* the length of the full history; the history is not empty when the
\* observer runs, and the observer asks the oracle at every OBSERVE.
C35_IterationIsHistoryLength ==
    /\ (step.node = "observe" \/ node = "done") =>
           /\ iteration = Len(operation_history)
           /\ operation_history # <<>>
    /\ step.node = "observe" => step.oracle_calls = 1

\* The second OBSERVE of a run, deciding to go on.
C35_Witness ==
    /\ step.node = "observe"
    /\ edge = "continue"
    /\ iteration = 2
    /\ Len(operation_history) = 2
    /\ step.oracle_calls = 1

\* C36 (under Spec): the snapshot in the run state is replaced only by a
\* PERCEIVE step, and PERCEIVE runs only at the start and after an OBSERVE
\* that gives CONTINUE; a PLAN entered after a failed EXECUTE has the
\* snapshot taken in its cycle, before the operation was tried.
C36_SnapshotOnlyByPerceive ==
    [][/\ node # "get_env" => browser_env' = browser_env
       /\ node' = "get_env" => (node = "observe" /\ edge' = "continue")
       /\ (node' = "plan" /\ edge' = "error") =>
              /\ node = "execute"
              /\ browser_env' \in SnapshotsAt(iteration')]_vars

\* PLAN entered after the second failure of the second cycle, with the
\* second cycle's snapshot.
C36_Witness ==
    /\ node = "plan"
    /\ edge = "error"
    /\ iteration = 1
    /\ retry_count = 2
    /\ browser_env = "s2"

\* The smaller of two numbers.
Min(a, b) == IF a <= b THEN a ELSE b

\* The buffer of the operation the last call was a call of.
LastBuffer == call_history[last.func_name]

\* C37 (under SpecInstances): the repeat count of a call follows the run
\* of identical calls of its own operation alone, whatever calls of other
\* guarded operations were made in between; and one buffer per operation
\* serves every instance: a call that is let through is the most recent
\* entry of its operation's buffer, whichever instance made it.
C37_BufferPerOperation ==
    last.outcome # "none" =>
        /\ LastInWindow =>
               last.repeat_count = Min(LastStreak.len - 1, max_repeats)
        /\ last.executed = 1 =>
               /\ LastBuffer # <<>>
               /\ LastBuffer[Len(LastBuffer)] = LastCall

\* The third of three identical calls of go_to_url on one instance, the
\* second and the third with a call of click_element between them, in a
\* buffer that also holds a call made on the other instance.
C37_Witness ==
    /\ last.func_name = "go_to_url"
    /\ last.repeat_count = max_repeats - 1
    /\ \E i \in 1..Len(LastBuffer) : LastBuffer[i].args[1] # last.args[1]
    /\ \E j \in 1..Len(call_history["click_element"]) :
           /\ call_history["click_element"][j].timestamp < last.timestamp
           /\ call_history["click_element"][j].timestamp
                  > LastBuffer[Len(LastBuffer) - 1].timestamp

\* C38 (under SpecReissue): a call made more than T ms after the most recent
\* identical call that was let through is let through as a first call: the
\* operation runs and the call is recorded with a repeat count of 0, however
\* many refused attempts lie in between and however close to one another.
C38_RefusalsLeaveWindow ==
    [][calls' = calls + 1 =>
          LET f == last'.func_name
          IN  (/\ streak[f].len > 0
               /\ streak[f].args = last'.args
               /\ streak[f].admitted > 0
               /\ (last'.timestamp - streak[f].admitted) * 1000 > threshold_ms)
              => /\ last'.repeat_count = 0
                 /\ last'.executed = 1
                 /\ last'.outcome # "RepeatedCallError"]_vars

\* Three calls let through, one refused, and the next one let through as a
\* first call more than T ms after the third and less than T ms after the
\* refused one.
C38_Witness ==
    /\ last.outcome # "none"
    /\ last.executed = 1
    /\ last.repeat_count = 0
    /\ LastStreak.len = max_repeats + 2
    /\ Len(LastBuffer) = max_repeats + 1
    /\ (last.timestamp - LastBuffer[max_repeats].timestamp) * 1000 > threshold_ms

\* C39 (under Spec): an EXECUTE outcome is an error exactly when the result
\* is a mapping with error = true; every other value, the guard's warning
\* string and the driver's own strings among them, is a success: retry_count
\* becomes 0, the record is appended to the history and the flow goes to
\* OBSERVE.
C39_Classification ==
    (step.node = "execute" /\ node # "crashed") =>
        IF operation_result.error
        THEN /\ edge \in {"retry", "error"}
             /\ retry_count > 0
        ELSE /\ edge = "success"
             /\ node = "observe"
             /\ retry_count = 0
             /\ operation_history # <<>>
             /\ operation_history[Len(operation_history)] =
                    [operation |-> planned_operation, result |-> operation_result]

\* The guard's warning string, recorded as the result of a success.
C39_Witness ==
    /\ step.node = "execute"
    /\ operation_result = Success("warning")
    /\ edge = "success"
    /\ node = "observe"
    /\ operation_history[Len(operation_history)].result = Success("warning")

====
